---- MODULE Spec2Model ----
(***************************************************************************)
(* The Hashicorp Vault wallets of accounts/vault.                          *)
(*                                                                         *)
(* hashicorpWallet: one wallet object used by several goroutines.  Every   *)
(* exported method is split at the points where it takes or waits for      *)
(* stateLock and at its remote calls; the remote store and the process     *)
(* environment are inputs chosen afresh at every call.                     *)
(*                                                                         *)
(* hashicorpBackend: the collection of wallets built by refreshWallets     *)
(* and the update feed that the backend and its wallets send to.           *)
(*                                                                         *)
(* vaultWallet: Accounts and Close, over a VaultService whose              *)
(* implementation is not part of these sources.                            *)
(*                                                                         *)
(* Specifications: Spec (one caller of a hashicorpWallet), SpecConc        *)
(* (several callers), SpecFeed (one caller, with subscribers on the        *)
(* feed), SpecBackend (the backend), SpecVault (a vaultWallet) and         *)
(* SpecLocator (SecretData.toRequestData on its own).                      *)
(***************************************************************************)
EXTENDS Integers, Sequences, FiniteSets, TLC

\* ---------------------------------------------------------------- bounds
NumThreads == 2     \* goroutines calling into the wallet
NumSecrets == 2     \* configured SecretData entries of the wallet
MaxReaders == 1     \* cap on read locks that Open may leave behind
MaxSubscribers == 1 \* sinks subscribed to the update feed
NumConfigs == 3     \* HashicorpConfig entries the backend is constructed with
MaxVersion == 12    \* largest SecretData.Version handed to toRequestData on its own

Threads == 1 .. NumThreads
NoThread == 0
Nil == "nil"
Addresses == {"a1", "a2"}

VARIABLES
    client,             \* hw.client: Nil, or the token the client carries
    accounts,           \* hw.accounts
    accountsSecretMap,  \* hw.accountsSecretMap
    secrets,            \* hw.secrets (immutable after construction)
    readers,            \* stateLock: read locks currently held
    writer,             \* stateLock: the goroutine inside Lock() (waiting or holding)
    crashed,            \* TRUE once a goroutine panicked (the process is gone)
    pc,                 \* per goroutine: position in the current call
    op,                 \* per goroutine: the method being executed
    arg,                \* per goroutine: the accounts.Account argument of the call
    ret,                \* per goroutine: the returned (err, value)
    env,                \* Open: <<VAULT_ROLE_ID present, VAULT_SECRET_ID present>>
    token,              \* Open: the token of the api client being built
    logins,             \* Open: approle login requests written by this call
    sent,               \* Open: WalletOpened events sent by this call
    sending,            \* Open: sinks that have yet to take the event being sent
    subscribed,         \* updateFeed: sinks subscribed to the feed
    cleared,            \* Close: this call cleared the token of the client (ClearToken)
    health,             \* Status: what Sys().Health() answered to this call
    sd,                 \* SignHash/SignTx: secretData found in the map
    key,                \* SignHash/SignTx: state of the *ecdsa.PrivateKey buffer
    printed,            \* SignHash/SignTx: this call wrote the private key to standard output
    secretKey,          \* SignHash/SignTx: what the store answered for the key field
    reads,              \* per goroutine: store reads made by the current call
    idx,                \* refreshAccounts: loop index i (1-based)
    accts,              \* refreshAccounts: local accts
    acctsScrtsMap,      \* refreshAccounts: local acctsScrtsMap
    hashicorpConfigs,   \* hb.hashicorpConfigs
    wallets,            \* hb.wallets
    arrived,            \* updateFeed: the wallets of the WalletArrived events sent
    cfgIdx,             \* refreshWallets: position in the loop being run (1-based)
    newWallets,         \* refreshWallets: local wallets
    events,             \* refreshWallets: local events
    vwAccounts,         \* vaultWallet: w.accounts
    fetched,            \* vaultWallet.Accounts: local accts
    descriptor,         \* toRequestData on its own: the receiver s
    request             \* toRequestData on its own: the (path, queryParams, err) returned

wallet == <<client, accounts, accountsSecretMap, secrets>>
lock == <<readers, writer>>
openLocals == <<env, token, logins, sent>>
signLocals == <<sd, key, printed, secretKey>>
refreshLocals == <<idx, accts, acctsScrtsMap>>
\* What the methods of the wallet never write.
backendLocals == <<cfgIdx, newWallets, events>>
backend == <<hashicorpConfigs, wallets, arrived>>
vault == <<vwAccounts, fetched>>
locator == <<descriptor, request>>
outside == <<subscribed, backend, backendLocals, vault, locator>>
vars == <<client, accounts, accountsSecretMap, secrets, readers, writer,
          crashed, pc, op, arg, ret, env, token, logins, sent, sending, subscribed,
          cleared, health, sd, key,
          printed, secretKey, reads, idx, accts, acctsScrtsMap,
          hashicorpConfigs, wallets, arrived, cfgIdx, newWallets, events,
          vwAccounts, fetched, descriptor, request>>

\* ------------------------------------------------------- data and helpers
\* SecretData; the engine and the field names are the same for every entry.
SecretData(n, v) ==
    [Name |-> "acct" \o ToString(n), SecretEngine |-> "secret", Version |-> v,
     AccountID |-> "address", KeyID |-> "key"]

ConfigVersions == {-1, 1}

\* The configurations a wallet can be constructed with.
Configs ==
    {c \in [1 .. NumSecrets -> {SecretData(n, v) : n \in 1 .. NumSecrets, v \in ConfigVersions}] :
        \A n \in 1 .. NumSecrets : c[n].Name = "acct" \o ToString(n)}

\* clientData.Url as strings.Split(url, "://") sees it.
ClientUrlParts == <<"http", "vault:8200">>

EmptyURL == [Scheme |-> "", Path |-> ""]

parseURL(parts) ==
    IF Len(parts) # 2 \/ parts[1] = ""
    THEN [url |-> EmptyURL, err |-> "protocol scheme missing"]
    ELSE [url |-> [Scheme |-> parts[1], Path |-> parts[2]], err |-> Nil]

\* strconv.Itoa (and %v of an int): the decimal digits, with a sign.
Digits == <<"0", "1", "2", "3", "4", "5", "6", "7", "8", "9">>
RECURSIVE Itoa(_)
Itoa(n) ==
    IF n < 0 THEN "-" \o Itoa(0 - n)
    ELSE IF n < 10 THEN Digits[n + 1]
    ELSE Itoa(n \div 10) \o Digits[(n % 10) + 1]

\* toRequestData that also rejects version 0.
toRequestData_RejectsZero(s) ==
    IF s.Version <= 0
    THEN [path |-> "", queryParams |-> << >>, err |-> "Hashicorp Vault secret version must be integer >= 0"]
    ELSE [path |-> s.SecretEngine \o "/data/" \o s.Name,
          queryParams |-> [version |-> <<Itoa(s.Version)>>],
          err |-> Nil]

\* toRequestData, lines 53-65.
toRequestData(s) ==
    IF s.Version < 0
    THEN [path |-> "", queryParams |-> << >>, err |-> "Hashicorp Vault secret version must be integer >= 0"]
    ELSE [path |-> s.SecretEngine \o "/data/" \o s.Name,
          queryParams |-> [version |-> <<Itoa(s.Version)>>],
          err |-> Nil]

\* The URL getAccount gives the account found for secret s under the given path.
AccountUrlParts(s, path) ==
    <<ClientUrlParts[1],
      ClientUrlParts[2] \o "/v1/" \o path \o "?version=" \o Itoa(s.Version)>>

ZeroAccount == [Address |-> "", URL |-> EmptyURL]

\* Accounts a caller may pass to Contains, SignHash and SignTx.
CallerURLs ==
    {EmptyURL,
     parseURL(AccountUrlParts(SecretData(1, 1), toRequestData(SecretData(1, 1)).path)).url}
CallerAccounts == [Address : Addresses, URL : CallerURLs]

\* What the remote store answers to a read of one secret.
AcctValues == {"absent", "notstring", "badaddress"} \cup Addresses
KeyValues == {"absent", "notstring", "badhex", "goodkey"}
Responses ==
    {[kind |-> "error", acct |-> "absent", key |-> "absent"],
     [kind |-> "nodata", acct |-> "absent", key |-> "absent"]}
    \cup [kind : {"secret"}, acct : AcctValues, key : KeyValues]

NoRet == [err |-> "none", val |-> Nil]
Ok(v) == [err |-> Nil, val |-> v]
Err(e) == [err |-> e, val |-> Nil]
ErrAt(e, i) == [err |-> e, val |-> i]

EmptyMap == << >>
Put(m, k, v) == [x \in DOMAIN m \cup {k} |-> IF x = k THEN v ELSE m[x]]

\* The loop of Contains over the cached list.
ContainsIn(list, account) ==
    \E j \in 1 .. Len(list) :
        /\ list[j].Address = account.Address
        /\ (EmptyURL = account.URL \/ list[j].URL = account.URL)

\* types.SignTx's signer as SignTx selects it.
SignerFor(chainIDPresent, isPrivate) ==
    IF chainIDPresent /\ ~isPrivate THEN "EIP155Signer" ELSE "HomesteadSigner"

\* What Sys().Health() can answer: an error, or the two flags.
NoHealth == [kind |-> "none", Initialized |-> FALSE, Sealed |-> FALSE]
HealthResponses ==
    {[kind |-> "error", Initialized |-> FALSE, Sealed |-> FALSE]}
    \cup [kind : {"health"}, Initialized : BOOLEAN, Sealed : BOOLEAN]

\* The status strings, lines 126-132.
walletClosed == "Closed"
vaultUninitialised == "Vault uninitialised"
vaultSealed == "Vault sealed"
healthcheckFailed == "Vault healthcheck failed"
walletOpen == "Open, vault initialised and unsealed"

\* %v of a bool.
FormatBool(b) == IF b THEN "true" ELSE "false"

\* The error of lines 149 and 153.
HealthError(h) ==
    "Vault health check result - Initialized: " \o FormatBool(h.Initialized)
        \o ", Sealed: " \o FormatBool(h.Sealed)

\* stateLock.RLock() returns at once unless a writer is inside Lock().
CanRLock == writer = NoThread

\* ClientData.Url of configuration n as strings.Split(url, "://") sees it:
\* well-formed, or without a scheme.
GoodUrlParts(n) == <<"http", "vault" \o ToString(n) \o ":8200">>
BadUrlParts(n) == <<"vault" \o ToString(n) \o ":8200">>

\* The configuration lists a backend can be constructed with.
BackendConfigs ==
    {c \in [1 .. NumConfigs -> {[Url |-> u] : u \in UNION {{GoodUrlParts(n), BadUrlParts(n)} : n \in 1 .. NumConfigs}}] :
        \A n \in 1 .. NumConfigs : c[n].Url \in {GoodUrlParts(n), BadUrlParts(n)}}

\* No call of toRequestData has returned yet.
NoRequest == [path |-> "", queryParams |-> << >>, err |-> "none"]

\* The descriptors toRequestData is applied to on its own.
Descriptors ==
    [Name : {"acct1", "acct2"}, SecretEngine : {"secret", "kv"},
     Version : -3 .. MaxVersion, AccountID : {"address"}, KeyID : {"key"}]

\* ------------------------------------------------------------------ Init
\* A wallet made by NewHashicorpWallet, and the goroutines that will call it.
InitWallet ==
    /\ client = Nil
    /\ accounts = << >>
    /\ accountsSecretMap = EmptyMap
    /\ secrets \in Configs
    /\ readers = 0
    /\ writer = NoThread
    /\ crashed = FALSE
    /\ pc = [t \in Threads |-> "idle"]
    /\ op = [t \in Threads |-> "none"]
    /\ arg = [t \in Threads |-> ZeroAccount]
    /\ ret = [t \in Threads |-> NoRet]
    /\ env = [t \in Threads |-> <<FALSE, FALSE>>]
    /\ token = [t \in Threads |-> "none"]
    /\ logins = [t \in Threads |-> 0]
    /\ sent = [t \in Threads |-> 0]
    /\ sending = [t \in Threads |-> 0]
    /\ subscribed = 0
    /\ cleared = [t \in Threads |-> FALSE]
    /\ health = [t \in Threads |-> NoHealth]
    /\ sd = [t \in Threads |-> Nil]
    /\ key = [t \in Threads |-> "none"]
    /\ printed = [t \in Threads |-> FALSE]
    /\ secretKey = [t \in Threads |-> "none"]
    /\ reads = [t \in Threads |-> 0]
    /\ idx = [t \in Threads |-> 0]
    /\ accts = [t \in Threads |-> << >>]
    /\ acctsScrtsMap = [t \in Threads |-> EmptyMap]
    /\ cfgIdx = [t \in Threads |-> 0]
    /\ newWallets = [t \in Threads |-> << >>]
    /\ events = [t \in Threads |-> << >>]
    /\ wallets = << >>
    /\ arrived = << >>
    /\ vwAccounts = << >>
    /\ fetched = [t \in Threads |-> << >>]
    /\ request = NoRequest

\* The wallet on its own: no backend around it.
Init ==
    /\ InitWallet
    /\ hashicorpConfigs = << >>
    /\ descriptor = SecretData(1, 1)

\* A call of method m by t returns r.
Return(t, m, r) ==
    /\ pc' = [pc EXCEPT ![t] = "done"]
    /\ op' = [op EXCEPT ![t] = m]
    /\ ret' = [ret EXCEPT ![t] = r]

\* t moves on to position p of method m.
Goto(t, m, p) ==
    /\ pc' = [pc EXCEPT ![t] = p]
    /\ op' = [op EXCEPT ![t] = m]
    /\ UNCHANGED ret

\* t panics: deferred unlocks run, then the process dies.
Panic(t, m) ==
    /\ pc' = [pc EXCEPT ![t] = "panic"]
    /\ op' = [op EXCEPT ![t] = m]
    /\ crashed' = TRUE
    /\ UNCHANGED ret

\* ------------------------------------------------------------------ Open
\* OpenCheck without the test of hw.client: every Open goes on to build a client.
OpenCheck_NoSessionCheck(t) ==
    /\ pc[t] = "idle" /\ ~crashed
    /\ CanRLock
    /\ Goto(t, "Open", "open_lock")
    /\ UNCHANGED <<health, outside, sending, reads, cleared, wallet, lock, crashed, arg, openLocals, signLocals, refreshLocals>>

\* Open, lines 172-176: the check under the read lock.  The early return
\* leaves the read lock held (no RUnlock before it).
OpenCheck(t) ==
    /\ pc[t] = "idle" /\ ~crashed
    /\ CanRLock
    /\ IF client # Nil
       THEN /\ readers < MaxReaders
            /\ readers' = readers + 1
            /\ Return(t, "Open", Err("ErrWalletAlreadyOpen"))
       ELSE /\ readers' = readers
            /\ Goto(t, "Open", "open_lock")
    /\ UNCHANGED <<health, outside, sending, reads, cleared, wallet, writer, crashed, arg, openLocals, signLocals, refreshLocals>>

\* Open, line 178: stateLock.Lock() announces the writer.
OpenLock(t) ==
    /\ pc[t] = "open_lock" /\ ~crashed
    /\ writer = NoThread
    /\ writer' = t
    /\ Goto(t, "Open", "open_wait")
    /\ UNCHANGED <<health, outside, sending, reads, cleared, wallet, readers, crashed, arg, openLocals, signLocals, refreshLocals>>

\* OpenClient that logs in only when both variables are set and otherwise
\* falls back to the ambient token (no rIdOk != sIdOk test).
OpenClient_AllowsPartial(t) ==
    /\ pc[t] = "open_wait" /\ ~crashed
    /\ writer = t /\ readers = 0
    /\ \E clientOk \in BOOLEAN, rIdOk \in BOOLEAN, sIdOk \in BOOLEAN :
        IF ~clientOk
        THEN /\ Return(t, "Open", Err("ClientError"))
             /\ writer' = NoThread
             /\ UNCHANGED <<env, token>>
        ELSE /\ env' = [env EXCEPT ![t] = <<rIdOk, sIdOk>>]
             /\ IF rIdOk /\ sIdOk
                THEN /\ Goto(t, "Open", "open_auth")
                     /\ UNCHANGED <<writer, token>>
                ELSE /\ token' = [token EXCEPT ![t] = "ambient"]
                     /\ Goto(t, "Open", "open_send")
                     /\ UNCHANGED writer
    /\ UNCHANGED <<health, outside, sending, reads, cleared, client, accounts, accountsSecretMap, secrets, readers, crashed,
                   arg, logins, sent, signLocals, refreshLocals>>

\* Open, lines 178-214: the lock is granted once the readers have left; the
\* api client is built and the environment is read.  (The approle path,
\* lines 208-214, only names the login endpoint used by the same call.)
OpenClient(t) ==
    /\ pc[t] = "open_wait" /\ ~crashed
    /\ writer = t /\ readers = 0
    /\ \E clientOk \in BOOLEAN, rIdOk \in BOOLEAN, sIdOk \in BOOLEAN :
        IF ~clientOk
        THEN /\ Return(t, "Open", Err("ClientError"))
             /\ writer' = NoThread
             /\ UNCHANGED <<env, token>>
        ELSE /\ env' = [env EXCEPT ![t] = <<rIdOk, sIdOk>>]
             /\ IF rIdOk # sIdOk
                THEN /\ Return(t, "Open", Err("AuthConfigError"))
                     /\ writer' = NoThread
                     /\ UNCHANGED token
                ELSE IF rIdOk /\ sIdOk
                THEN /\ Goto(t, "Open", "open_auth")
                     /\ UNCHANGED <<writer, token>>
                ELSE /\ token' = [token EXCEPT ![t] = "ambient"]
                     /\ Goto(t, "Open", "open_send")
                     /\ UNCHANGED writer
    /\ UNCHANGED <<health, outside, sending, reads, cleared, client, accounts, accountsSecretMap, secrets, readers, crashed,
                   arg, logins, sent, signLocals, refreshLocals>>

\* OpenAuth that sends the WalletOpened event before the login is attempted.
OpenAuth_SendsBeforeLogin(t) ==
    /\ pc[t] = "open_auth" /\ ~crashed
    /\ logins' = [logins EXCEPT ![t] = @ + 1]
    /\ sent' = [sent EXCEPT ![t] = @ + 1]
    /\ \E loginOk \in BOOLEAN :
        IF loginOk
        THEN /\ token' = [token EXCEPT ![t] = "approle"]
             /\ Goto(t, "Open", "open_store")
             /\ UNCHANGED writer
        ELSE /\ Return(t, "Open", Err("TransportError"))
             /\ writer' = NoThread
             /\ UNCHANGED token
    /\ UNCHANGED <<health, outside, sending, reads, cleared, wallet, readers, crashed, arg, env, signLocals, refreshLocals>>

\* Open, lines 216-223: the approle login and the token it returns.
OpenAuth(t) ==
    /\ pc[t] = "open_auth" /\ ~crashed
    /\ logins' = [logins EXCEPT ![t] = @ + 1]
    /\ \E loginOk \in BOOLEAN :
        IF loginOk
        THEN /\ token' = [token EXCEPT ![t] = "approle"]
             /\ Goto(t, "Open", "open_send")
             /\ UNCHANGED writer
        ELSE /\ Return(t, "Open", Err("TransportError"))
             /\ writer' = NoThread
             /\ UNCHANGED token
    /\ UNCHANGED <<health, outside, sending, reads, cleared, wallet, readers, crashed, arg, env, sent, signLocals, refreshLocals>>

\* Open, lines 226-228: updateFeed.Send of the WalletOpened event, called
\* in line (no go statement) with the exclusive lock held.  Send hands the
\* event to the sink of every subscriber and returns when each has taken it.
OpenSend(t) ==
    /\ pc[t] = "open_send" /\ ~crashed
    /\ sent' = [sent EXCEPT ![t] = @ + 1]
    /\ sending' = [sending EXCEPT ![t] = subscribed]
    /\ Goto(t, "Open", IF subscribed = 0 THEN "open_store" ELSE "open_sending")
    /\ UNCHANGED <<health, outside, reads, cleared, wallet, lock, crashed, arg, env, token, logins,
                   signLocals, refreshLocals>>

\* A subscriber receives from its sink: one more sink has taken the event of
\* the Send in progress; Send returns with the last of them (to Open, line
\* 230, or to the loop of refreshWallets).
SinkReceive(t) ==
    /\ pc[t] \in {"open_sending", "build_sending"} /\ ~crashed
    /\ sending[t] > 0
    /\ sending' = [sending EXCEPT ![t] = @ - 1]
    /\ Goto(t, op[t], IF sending[t] > 1 THEN pc[t]
                      ELSE IF pc[t] = "open_sending" THEN "open_store" ELSE "build_send")
    /\ UNCHANGED <<health, outside, reads, cleared, wallet, lock, crashed, arg, env, token, logins, sent,
                   signLocals, refreshLocals>>

\* Open, lines 230-232: the client is stored, the lock released.
OpenStore(t) ==
    /\ pc[t] = "open_store" /\ ~crashed
    /\ client' = token[t]
    /\ writer' = NoThread
    /\ Return(t, "Open", Ok(Nil))
    /\ UNCHANGED <<health, outside, sending, reads, cleared, accounts, accountsSecretMap, secrets, readers, crashed,
                   arg, openLocals, signLocals, refreshLocals>>

\* ----------------------------------------------------------------- Close
\* Close, line 237: stateLock.Lock() announces the writer.
CloseLock(t) ==
    /\ pc[t] = "idle" /\ ~crashed
    /\ writer = NoThread
    /\ writer' = t
    /\ Goto(t, "Close", "close_wait")
    /\ UNCHANGED <<health, outside, sending, reads, cleared, wallet, readers, crashed, arg, openLocals, signLocals, refreshLocals>>

\* closeState without hw.accountsSecretMap = nil.
closeState_KeepsIndex(c, a, m) ==
    IF c = Nil
    THEN [client |-> c, accounts |-> a, accountsSecretMap |-> m, clearToken |-> FALSE]
    ELSE [client |-> Nil, accounts |-> << >>, accountsSecretMap |-> m, clearToken |-> TRUE]

\* Close, lines 240-247: the fields after Close, from the fields before, and
\* whether the token of the client was cleared.
closeState(c, a, m) ==
    IF c = Nil
    THEN [client |-> c, accounts |-> a, accountsSecretMap |-> m, clearToken |-> FALSE]
    ELSE [client |-> Nil, accounts |-> << >>, accountsSecretMap |-> EmptyMap, clearToken |-> TRUE]

\* CloseBody that reports a wallet without a session as an error.
CloseBody_ErrWhenClosed(t) ==
    /\ pc[t] = "close_wait" /\ ~crashed
    /\ writer = t /\ readers = 0
    /\ LET after == closeState(client, accounts, accountsSecretMap) IN
        /\ client' = after.client
        /\ accounts' = after.accounts
        /\ accountsSecretMap' = after.accountsSecretMap
        /\ cleared' = [cleared EXCEPT ![t] = after.clearToken]
    /\ writer' = NoThread
    /\ Return(t, "Close", IF client = Nil THEN Err("ErrWalletClosed") ELSE Ok(Nil))
    /\ UNCHANGED <<health, outside, sending, reads, secrets, readers, crashed, arg, openLocals, signLocals,
                   refreshLocals>>

\* CloseBody that does not wait for the readers to leave.
CloseBody_IgnoresReaders(t) ==
    /\ pc[t] = "close_wait" /\ ~crashed
    /\ writer = t
    /\ LET after == closeState(client, accounts, accountsSecretMap) IN
        /\ client' = after.client
        /\ accounts' = after.accounts
        /\ accountsSecretMap' = after.accountsSecretMap
        /\ cleared' = [cleared EXCEPT ![t] = after.clearToken]
    /\ writer' = NoThread
    /\ Return(t, "Close", Ok(Nil))
    /\ UNCHANGED <<health, outside, sending, reads, secrets, readers, crashed, arg, openLocals, signLocals,
                   refreshLocals>>

\* Close, lines 237-249, once the lock is granted.
CloseBody(t) ==
    /\ pc[t] = "close_wait" /\ ~crashed
    /\ writer = t /\ readers = 0
    /\ LET after == closeState(client, accounts, accountsSecretMap) IN
        /\ client' = after.client
        /\ accounts' = after.accounts
        /\ accountsSecretMap' = after.accountsSecretMap
        /\ cleared' = [cleared EXCEPT ![t] = after.clearToken]
    /\ writer' = NoThread
    /\ Return(t, "Close", Ok(Nil))
    /\ UNCHANGED <<health, outside, sending, reads, secrets, readers, crashed, arg, openLocals, signLocals,
                   refreshLocals>>

\* ---------------------------------------------------------------- Status
\* healthStatus that tests Sealed before Initialized.
healthStatus_SealedFirst(h) ==
    IF h.kind = "error" THEN [err |-> "TransportError", val |-> healthcheckFailed]
    ELSE IF h.Sealed THEN [err |-> HealthError(h), val |-> vaultSealed]
    ELSE IF ~h.Initialized THEN [err |-> HealthError(h), val |-> vaultUninitialised]
    ELSE [err |-> Nil, val |-> walletOpen]

\* Status, lines 142-156: the status and the error for the answer h of the
\* health call.
healthStatus(h) ==
    IF h.kind = "error" THEN [err |-> "TransportError", val |-> healthcheckFailed]
    ELSE IF ~h.Initialized THEN [err |-> HealthError(h), val |-> vaultUninitialised]
    ELSE IF h.Sealed THEN [err |-> HealthError(h), val |-> vaultSealed]
    ELSE [err |-> Nil, val |-> walletOpen]

\* Status, lines 135-140: the read lock and the test of hw.client.
StatusStart(t) ==
    /\ pc[t] = "idle" /\ ~crashed
    /\ CanRLock
    /\ IF client = Nil
       THEN /\ Return(t, "Status", [err |-> Nil, val |-> walletClosed])
            /\ UNCHANGED readers
       ELSE /\ readers' = readers + 1
            /\ Goto(t, "Status", "status_health")
    /\ UNCHANGED <<health, outside, sending, reads, cleared, wallet, writer, crashed, arg, openLocals,
                   signLocals, refreshLocals>>

\* Status, lines 142-156: the health call, made with the read lock held, and
\* the deferred RUnlock.
StatusHealth(t) ==
    /\ pc[t] = "status_health" /\ ~crashed
    /\ \E h \in HealthResponses :
        /\ health' = [health EXCEPT ![t] = h]
        /\ Return(t, "Status", healthStatus(h))
    /\ readers' = readers - 1
    /\ UNCHANGED <<outside, sending, reads, cleared, wallet, writer, crashed, arg, openLocals,
                   signLocals, refreshLocals>>

\* ----------------------------------------------------- Accounts, Contains
\* Accounts, lines 253-261.
Accounts(t) ==
    /\ pc[t] = "idle" /\ ~crashed
    /\ CanRLock
    /\ Return(t, "Accounts", Ok(accounts))
    /\ UNCHANGED <<health, outside, sending, reads, cleared, wallet, lock, crashed, arg, openLocals, signLocals, refreshLocals>>

\* Contains, lines 264-275.
Contains(t) ==
    /\ pc[t] = "idle" /\ ~crashed
    /\ CanRLock
    /\ \E a \in CallerAccounts :
        /\ arg' = [arg EXCEPT ![t] = a]
        /\ Return(t, "Contains", Ok(ContainsIn(accounts, a)))
    /\ UNCHANGED <<health, outside, sending, reads, cleared, wallet, lock, crashed, openLocals, signLocals, refreshLocals>>

\* ------------------------------------------------------ SignHash, SignTx
\* SignStart without the test of hw.client: a closed wallet falls through to
\* the lookup in the (empty) map.
SignStart_NoSessionCheck(t) ==
    /\ pc[t] = "idle" /\ ~crashed
    /\ CanRLock
    /\ \E m \in {"SignHash", "SignTx"}, a \in CallerAccounts :
        /\ arg' = [arg EXCEPT ![t] = a]
        /\ IF a.Address \notin DOMAIN accountsSecretMap
           THEN /\ Return(t, m, Err("ErrUnknownAccount"))
                /\ UNCHANGED <<readers, sd>>
           ELSE /\ readers' = readers + 1
                /\ sd' = [sd EXCEPT ![t] = accountsSecretMap[a.Address]]
                /\ Goto(t, m, "sign_key")
    /\ UNCHANGED <<health, outside, sending, reads, cleared, wallet, writer, crashed, key, printed, secretKey, openLocals, refreshLocals>>

\* SignHash lines 288-298, SignTx lines 310-320: the read lock, the session
\* check and the lookup of the address in accountsSecretMap.
SignStart(t) ==
    /\ pc[t] = "idle" /\ ~crashed
    /\ CanRLock
    /\ \E m \in {"SignHash", "SignTx"}, a \in CallerAccounts :
        /\ arg' = [arg EXCEPT ![t] = a]
        /\ IF client = Nil
           THEN /\ Return(t, m, Err("ErrWalletClosed"))
                /\ UNCHANGED <<readers, sd>>
           ELSE IF a.Address \notin DOMAIN accountsSecretMap
           THEN /\ Return(t, m, Err("ErrUnknownAccount"))
                /\ UNCHANGED <<readers, sd>>
           ELSE /\ readers' = readers + 1
                /\ sd' = [sd EXCEPT ![t] = accountsSecretMap[a.Address]]
                /\ Goto(t, m, "sign_key")
    /\ UNCHANGED <<health, outside, sending, reads, cleared, wallet, writer, crashed, key, printed, secretKey, openLocals, refreshLocals>>

\* getPrivateKey, lines 431-469, applied to the answer resp of the store:
\* the error it returns, "panic", or Nil with the key parsed.
getPrivateKey(s, resp) ==
    IF toRequestData(s).err # Nil THEN "InvalidDescriptor"
    ELSE IF resp.kind = "error" THEN "TransportError"
    ELSE IF resp.kind = "nodata" THEN "panic"
    ELSE IF resp.key = "absent" THEN "ErrUnknownAccount"
    ELSE IF resp.key = "notstring" THEN "panic"
    ELSE IF resp.key = "badhex" THEN "ParseError"
    ELSE Nil

\* getPrivateKey, line 460: the key string is written to standard output
\* before it is parsed.
PrintsKey(s, resp) ==
    /\ toRequestData(s).err = Nil
    /\ resp.kind = "secret"
    /\ resp.key \in {"badhex", "goodkey"}

\* SignHash lines 300-303, SignTx lines 322-325: getPrivateKey is called
\* with the read lock of the signing method held; read (lines 343-348)
\* takes the read lock once more around the request.
SignKey(t) ==
    /\ pc[t] = "sign_key" /\ ~crashed
    /\ IF toRequestData(sd[t]).err # Nil
       THEN /\ Return(t, op[t], Err(getPrivateKey(sd[t], CHOOSE r \in Responses : TRUE)))
            /\ readers' = readers - 1
            /\ UNCHANGED <<crashed, key, printed, secretKey, reads>>
       ELSE /\ CanRLock
            /\ IF client = Nil
               THEN /\ Panic(t, op[t])
                    /\ readers' = readers - 1
                    /\ UNCHANGED <<key, printed, secretKey, reads>>
               ELSE \E resp \in Responses :
                    LET e == getPrivateKey(sd[t], resp) IN
                    /\ reads' = [reads EXCEPT ![t] = @ + 1]
                    /\ secretKey' = [secretKey EXCEPT ![t] =
                                        IF resp.kind = "secret" THEN resp.key ELSE resp.kind]
                    /\ printed' = [printed EXCEPT ![t] = PrintsKey(sd[t], resp)]
                    /\ IF e = "panic"
                       THEN /\ Panic(t, op[t])
                            /\ readers' = readers - 1
                            /\ UNCHANGED key
                       ELSE IF e # Nil
                       THEN /\ Return(t, op[t], Err(e))
                            /\ readers' = readers - 1
                            /\ UNCHANGED <<crashed, key>>
                       ELSE /\ key' = [key EXCEPT ![t] = "live"]
                            /\ Goto(t, op[t], "sign_do")
                            /\ UNCHANGED <<readers, crashed>>
    /\ UNCHANGED <<health, outside, sending, cleared, wallet, writer, arg, sd, openLocals, refreshLocals>>

\* zeroKey, lines 495-500.
zeroKey(k) == IF k = "live" THEN "zero" ELSE k

\* SignDo that zeroes the key before it signs: signing with the zeroed key fails.
SignDo_ZeroBeforeSign(t) ==
    /\ pc[t] = "sign_do" /\ ~crashed
    /\ Return(t, op[t], Err("SignError"))
    /\ key' = [key EXCEPT ![t] = zeroKey(@)]
    /\ readers' = readers - 1
    /\ UNCHANGED <<health, outside, sending, reads, cleared, wallet, writer, crashed, arg, sd, printed, secretKey, openLocals, refreshLocals>>

\* SignHash lines 304-306, SignTx lines 326-332: sign, then the deferred
\* zeroKey and RUnlock.
SignDo(t) ==
    /\ pc[t] = "sign_do" /\ ~crashed
    /\ \E chainIDPresent \in BOOLEAN, isPrivate \in BOOLEAN :
        Return(t, op[t], Ok(IF op[t] = "SignTx"
                            THEN SignerFor(chainIDPresent, isPrivate)
                            ELSE "signature"))
    /\ key' = [key EXCEPT ![t] = zeroKey(@)]
    /\ readers' = readers - 1
    /\ UNCHANGED <<health, outside, sending, reads, cleared, wallet, writer, crashed, arg, sd, printed, secretKey, openLocals, refreshLocals>>

\* ------------------------------------------------------- refreshAccounts
\* refreshAccounts, lines 473-474: the local list and map.
RefreshStart(t) ==
    /\ pc[t] = "idle" /\ ~crashed
    /\ idx' = [idx EXCEPT ![t] = 1]
    /\ accts' = [accts EXCEPT ![t] = [j \in 1 .. Len(secrets) |-> ZeroAccount]]
    /\ acctsScrtsMap' = [acctsScrtsMap EXCEPT ![t] = EmptyMap]
    /\ Goto(t, "refreshAccounts", IF Len(secrets) = 0 THEN "refresh_accounts" ELSE "refresh_get")
    /\ UNCHANGED <<health, outside, sending, reads, cleared, wallet, lock, crashed, arg, openLocals, signLocals>>

\* getAccount, lines 365-407, applied to the answer resp of the store: the
\* account, or the error message.
getAccount(s, resp) ==
    LET req == toRequestData(s) IN
    IF req.err # Nil
    THEN [acct |-> ZeroAccount, err |-> "unable to get secret URL from data"]
    ELSE IF resp.kind = "error"
    THEN [acct |-> ZeroAccount, err |-> "unable to retrieve secret from vault"]
    ELSE IF resp.kind = "nodata"
    THEN [acct |-> ZeroAccount, err |-> "panic"]
    ELSE IF resp.acct = "absent"
    THEN [acct |-> ZeroAccount, err |-> "no value found in vault with provided AccountID"]
    ELSE IF resp.acct = "notstring"
    THEN [acct |-> ZeroAccount, err |-> "AccountID value in vault is not plain string"]
    ELSE IF resp.acct \in Addresses
    THEN LET u == parseURL(AccountUrlParts(s, req.path)) IN
         IF u.err # Nil
         THEN [acct |-> ZeroAccount, err |-> "unable to create account URL"]
         ELSE [acct |-> [Address |-> resp.acct, URL |-> u.url], err |-> Nil]
    ELSE [acct |-> ZeroAccount, err |-> "unable to get account from vault"]

\* RefreshGet that stores each resolved account straight into hw.accounts and
\* hw.accountsSecretMap instead of the local list and map.
RefreshGet_WritesThrough(t) ==
    /\ pc[t] = "refresh_get" /\ ~crashed
    /\ LET s == secrets[idx[t]] IN
       IF toRequestData(s).err # Nil
       THEN /\ Return(t, "refreshAccounts", ErrAt(getAccount(s, CHOOSE r \in Responses : TRUE).err, idx[t]))
            /\ UNCHANGED <<crashed, refreshLocals, reads, accounts, accountsSecretMap>>
       ELSE /\ CanRLock
            /\ IF client = Nil
               THEN /\ Panic(t, "refreshAccounts")
                    /\ UNCHANGED <<refreshLocals, reads, accounts, accountsSecretMap>>
               ELSE \E resp \in Responses :
                    LET got == getAccount(s, resp) IN
                    /\ reads' = [reads EXCEPT ![t] = @ + 1]
                    /\ IF got.err = "panic"
                       THEN /\ Panic(t, "refreshAccounts")
                            /\ UNCHANGED <<refreshLocals, accounts, accountsSecretMap>>
                       ELSE IF got.err # Nil
                       THEN /\ Return(t, "refreshAccounts", ErrAt(got.err, idx[t]))
                            /\ UNCHANGED <<crashed, refreshLocals, accounts, accountsSecretMap>>
                       ELSE /\ accts' = [accts EXCEPT ![t][idx[t]] = got.acct]
                            /\ acctsScrtsMap' = [acctsScrtsMap EXCEPT ![t] = Put(@, got.acct.Address, s)]
                            /\ accounts' = SubSeq(accts'[t], 1, idx[t])
                            /\ accountsSecretMap' = acctsScrtsMap'[t]
                            /\ idx' = [idx EXCEPT ![t] = @ + 1]
                            /\ Goto(t, "refreshAccounts",
                                    IF idx[t] = Len(secrets) THEN "refresh_accounts" ELSE "refresh_get")
                            /\ UNCHANGED crashed
    /\ UNCHANGED <<health, outside, sending, cleared, client, secrets, lock, arg, openLocals, signLocals>>

\* refreshAccounts, lines 476-485: one turn of the loop.  getAccount reads
\* the store through read (lines 343-348), which takes the read lock and
\* uses hw.client without checking it.
RefreshGet(t) ==
    /\ pc[t] = "refresh_get" /\ ~crashed
    /\ LET s == secrets[idx[t]] IN
       IF toRequestData(s).err # Nil
       THEN /\ Return(t, "refreshAccounts", ErrAt(getAccount(s, CHOOSE r \in Responses : TRUE).err, idx[t]))
            /\ UNCHANGED <<crashed, refreshLocals, reads>>
       ELSE /\ CanRLock
            /\ IF client = Nil
               THEN /\ Panic(t, "refreshAccounts")
                    /\ UNCHANGED <<refreshLocals, reads>>
               ELSE \E resp \in Responses :
                    LET got == getAccount(s, resp) IN
                    /\ reads' = [reads EXCEPT ![t] = @ + 1]
                    /\ IF got.err = "panic"
                       THEN /\ Panic(t, "refreshAccounts")
                            /\ UNCHANGED refreshLocals
                       ELSE IF got.err # Nil
                       THEN /\ Return(t, "refreshAccounts", ErrAt(got.err, idx[t]))
                            /\ UNCHANGED <<crashed, refreshLocals>>
                       ELSE /\ accts' = [accts EXCEPT ![t][idx[t]] = got.acct]
                            /\ acctsScrtsMap' = [acctsScrtsMap EXCEPT ![t] = Put(@, got.acct.Address, s)]
                            /\ idx' = [idx EXCEPT ![t] = @ + 1]
                            /\ Goto(t, "refreshAccounts",
                                    IF idx[t] = Len(secrets) THEN "refresh_accounts" ELSE "refresh_get")
                            /\ UNCHANGED crashed
    /\ UNCHANGED <<health, outside, sending, cleared, wallet, lock, arg, openLocals, signLocals>>

\* refreshAccounts, line 487 (no lock is held).
RefreshAccounts(t) ==
    /\ pc[t] = "refresh_accounts" /\ ~crashed
    /\ accounts' = accts[t]
    /\ Goto(t, "refreshAccounts", "refresh_map")
    /\ UNCHANGED <<health, outside, sending, reads, cleared, client, accountsSecretMap, secrets, lock, crashed, arg,
                   openLocals, signLocals, refreshLocals>>

\* refreshAccounts, lines 488-490 (no lock is held).
RefreshMap(t) ==
    /\ pc[t] = "refresh_map" /\ ~crashed
    /\ accountsSecretMap' = acctsScrtsMap[t]
    /\ Return(t, "refreshAccounts", Ok(Nil))
    /\ UNCHANGED <<health, outside, sending, reads, cleared, client, accounts, secrets, lock, crashed, arg,
                   openLocals, signLocals, refreshLocals>>

\* ------------------------------------------------------------ scheduling
\* The caller takes the result; the goroutine is free for its next call.
Ack(t) ==
    /\ pc[t] = "done" /\ ~crashed
    /\ pc' = [pc EXCEPT ![t] = "idle"]
    /\ op' = [op EXCEPT ![t] = "none"]
    /\ arg' = [arg EXCEPT ![t] = ZeroAccount]
    /\ ret' = [ret EXCEPT ![t] = NoRet]
    /\ env' = [env EXCEPT ![t] = <<FALSE, FALSE>>]
    /\ token' = [token EXCEPT ![t] = "none"]
    /\ logins' = [logins EXCEPT ![t] = 0]
    /\ sent' = [sent EXCEPT ![t] = 0]
    /\ sending' = [sending EXCEPT ![t] = 0]
    /\ cleared' = [cleared EXCEPT ![t] = FALSE]
    /\ health' = [health EXCEPT ![t] = NoHealth]
    /\ sd' = [sd EXCEPT ![t] = Nil]
    /\ key' = [key EXCEPT ![t] = "none"]
    /\ printed' = [printed EXCEPT ![t] = FALSE]
    /\ secretKey' = [secretKey EXCEPT ![t] = "none"]
    /\ reads' = [reads EXCEPT ![t] = 0]
    /\ idx' = [idx EXCEPT ![t] = 0]
    /\ accts' = [accts EXCEPT ![t] = << >>]
    /\ acctsScrtsMap' = [acctsScrtsMap EXCEPT ![t] = EmptyMap]
    /\ cfgIdx' = [cfgIdx EXCEPT ![t] = 0]
    /\ newWallets' = [newWallets EXCEPT ![t] = << >>]
    /\ events' = [events EXCEPT ![t] = << >>]
    /\ fetched' = [fetched EXCEPT ![t] = << >>]
    /\ UNCHANGED <<subscribed, backend, vwAccounts, locator, wallet, lock, crashed>>

Step(t) ==
    \/ OpenCheck(t) \/ OpenLock(t) \/ OpenClient(t) \/ OpenAuth(t)
    \/ OpenSend(t) \/ OpenStore(t)
    \/ CloseLock(t) \/ CloseBody(t)
    \/ StatusStart(t) \/ StatusHealth(t)
    \/ Accounts(t) \/ Contains(t)
    \/ SignStart(t) \/ SignKey(t) \/ SignDo(t)
    \/ RefreshStart(t) \/ RefreshGet(t) \/ RefreshAccounts(t) \/ RefreshMap(t)
    \/ Ack(t)

\* One caller: the methods are called one after the other.
Next == Step(1)

Spec == Init /\ [][Next]_vars

\* Several goroutines call into the wallet concurrently.
NextConc == \E t \in Threads : Step(t)

SpecConc == Init /\ [][NextConc]_vars

\* ------------------------------------------------------------ update feed
\* hashicorpBackend.Subscribe, lines 37-48: the sink joins the feed that the
\* wallets of the backend send to.
Subscribe ==
    /\ subscribed < MaxSubscribers
    /\ subscribed' = subscribed + 1
    /\ UNCHANGED <<health, wallet, lock, crashed, pc, op, arg, ret, openLocals, sending, cleared,
                   signLocals, reads, refreshLocals, backend, backendLocals, vault, locator>>

\* One caller of the wallet, and subscribers that receive when they choose to.
NextFeed ==
    \/ Step(1)
    \/ Subscribe
    \/ \E t \in Threads : SinkReceive(t)

\* The caller is scheduled whenever it can run; nothing makes a subscriber receive.
SpecFeed == Init /\ [][NextFeed]_vars /\ WF_vars(Step(1))

\* --------------------------------------------------------------- backend
\* What the methods of the backend never write.
walletSide == <<wallet, lock, crashed, arg, openLocals, cleared, health, signLocals, reads,
                refreshLocals, locator>>

\* NewHashicorpWallet, lines 67-91, for configuration n in the call of t:
\* the wallet and the error.  On a URL that does not parse the wallet is the
\* empty &hashicorpWallet{}, returned together with the error.  (n and t
\* stand for the identity of the pointer.)
NewHashicorpWallet(clientData, n, t) ==
    LET u == parseURL(clientData.Url) IN
    IF u.err # Nil
    THEN [w |-> [url |-> EmptyURL, clientData |-> [Url |-> << >>], cfg |-> n, by |-> t],
          err |-> u.err]
    ELSE [w |-> [url |-> u.url, clientData |-> clientData, cfg |-> n, by |-> t],
          err |-> Nil]

\* refreshWallets, lines 53-57: the test of len(hb.wallets); no lock is taken.
RefreshWalletsCheck(t) ==
    /\ pc[t] = "idle" /\ ~crashed
    /\ IF Len(wallets) = 0
       THEN /\ cfgIdx' = [cfgIdx EXCEPT ![t] = 1]
            /\ Goto(t, "refreshWallets",
                    IF Len(hashicorpConfigs) = 0 THEN "build_send" ELSE "build_loop")
       ELSE /\ Return(t, "refreshWallets", Ok(Nil))
            /\ UNCHANGED cfgIdx
    /\ UNCHANGED <<walletSide, vault, sending, subscribed, backend, newWallets, events>>

\* refreshWallets, lines 58-68: one turn of the loop over the
\* configurations.  An error of the constructor is logged (line 63) and
\* the turn goes on: the event and the wallet are appended all the same.
RefreshWalletsNew(t) ==
    /\ pc[t] = "build_loop" /\ ~crashed
    /\ LET made == NewHashicorpWallet(hashicorpConfigs[cfgIdx[t]], cfgIdx[t], t) IN
        /\ events' = [events EXCEPT ![t] = Append(@, [Wallet |-> made.w, Kind |-> "WalletArrived"])]
        /\ newWallets' = [newWallets EXCEPT ![t] = Append(@, made.w)]
    /\ IF cfgIdx[t] = Len(hashicorpConfigs)
       THEN /\ cfgIdx' = [cfgIdx EXCEPT ![t] = 1]
            /\ Goto(t, "refreshWallets", "build_send")
       ELSE /\ cfgIdx' = [cfgIdx EXCEPT ![t] = @ + 1]
            /\ Goto(t, "refreshWallets", "build_loop")
    /\ UNCHANGED <<walletSide, vault, sending, subscribed, backend>>

\* refreshWallets, lines 70-72: updateFeed.Send of the next event.
RefreshWalletsSend(t) ==
    /\ pc[t] = "build_send" /\ ~crashed
    /\ cfgIdx[t] <= Len(events[t])
    /\ arrived' = Append(arrived, events[t][cfgIdx[t]].Wallet)
    /\ cfgIdx' = [cfgIdx EXCEPT ![t] = @ + 1]
    /\ sending' = [sending EXCEPT ![t] = subscribed]
    /\ Goto(t, "refreshWallets", IF subscribed = 0 THEN "build_send" ELSE "build_sending")
    /\ UNCHANGED <<walletSide, vault, subscribed, hashicorpConfigs, wallets, newWallets, events>>

\* refreshWallets, line 74: hb.wallets = wallets.
RefreshWalletsStore(t) ==
    /\ pc[t] = "build_send" /\ ~crashed
    /\ cfgIdx[t] > Len(events[t])
    /\ wallets' = newWallets[t]
    /\ Return(t, "refreshWallets", Ok(Nil))
    /\ UNCHANGED <<walletSide, vault, sending, subscribed, hashicorpConfigs, arrived, backendLocals>>

\* Wallets, lines 30-35.
Wallets(t) ==
    /\ pc[t] = "idle" /\ ~crashed
    /\ Return(t, "Wallets", Ok(wallets))
    /\ UNCHANGED <<walletSide, vault, sending, subscribed, backend, backendLocals>>

BackendStep(t) ==
    \/ RefreshWalletsCheck(t) \/ RefreshWalletsNew(t)
    \/ RefreshWalletsSend(t) \/ RefreshWalletsStore(t)
    \/ Wallets(t)
    \/ Ack(t)

\* A backend with its configurations (line 24) whose build step, Wallets and
\* Subscribe are called by several goroutines; the first run of the build
\* step is the one of NewHashicorpBackend (line 25).
InitBackend ==
    /\ InitWallet
    /\ secrets = CHOOSE c \in Configs : TRUE
    /\ hashicorpConfigs \in BackendConfigs
    /\ descriptor = SecretData(1, 1)

NextBackend ==
    \/ \E t \in Threads : BackendStep(t)
    \/ Subscribe
    \/ \E t \in Threads : SinkReceive(t)

SpecBackend == InitBackend /\ [][NextBackend]_vars

\* ----------------------------------------------------------- vaultWallet
\* What the methods of vaultWallet never write.  (Every critical section of
\* its stateLock is one step without a call inside, so the lock is never
\* held between two steps.)
vaultOutside == <<wallet, lock, crashed, arg, openLocals, sending, cleared, health, signLocals,
                  refreshLocals, subscribed, backend, backendLocals, locator>>

\* VaultService.getAccounts: the lists it can return, one account for every
\* configured secret that the store resolves at the time of the call.
GetAccountsResults ==
    LET found == [1 .. NumSecrets -> Addresses \cup {"unresolved"}]
        acct(n, a) == [Address |-> a,
                       URL |-> parseURL(AccountUrlParts(SecretData(n, 1),
                                         toRequestData(SecretData(n, 1)).path)).url]
        resolved(f) == SelectSeq([n \in 1 .. NumSecrets |-> n], LAMBDA n : f[n] # "unresolved")
    IN  {[j \in 1 .. Len(resolved(f)) |-> acct(resolved(f)[j], f[resolved(f)[j]])] : f \in found}

\* vaultWallet.Accounts, lines 94-98: the accounts are fetched through the
\* vault service.
VaultAccountsGet(t) ==
    /\ pc[t] = "idle" /\ ~crashed
    /\ \E accts0 \in GetAccountsResults : fetched' = [fetched EXCEPT ![t] = accts0]
    /\ reads' = [reads EXCEPT ![t] = @ + 1]
    /\ Goto(t, "vaultWallet.Accounts", "vault_store")
    /\ UNCHANGED <<vaultOutside, vwAccounts>>

\* vaultWallet.Accounts, lines 100-102: w.accounts = accts under the lock.
VaultAccountsStore(t) ==
    /\ pc[t] = "vault_store" /\ ~crashed
    /\ vwAccounts' = fetched[t]
    /\ Goto(t, "vaultWallet.Accounts", "vault_copy")
    /\ UNCHANGED <<vaultOutside, reads, fetched>>

\* vaultWallet.Accounts, lines 104-110: the copy of w.accounts under the read lock.
VaultAccountsCopy(t) ==
    /\ pc[t] = "vault_copy" /\ ~crashed
    /\ Return(t, "vaultWallet.Accounts", Ok(vwAccounts))
    /\ UNCHANGED <<vaultOutside, reads, vault>>

\* vaultWallet.Close, lines 84-90: w.accounts = nil under the lock, then
\* the result of VaultService.close.
VaultClose(t) ==
    /\ pc[t] = "idle" /\ ~crashed
    /\ vwAccounts' = << >>
    /\ \E e \in {Nil, "CloseError"} : Return(t, "vaultWallet.Close", Err(e))
    /\ UNCHANGED <<vaultOutside, reads, fetched>>

VaultStep(t) ==
    \/ VaultAccountsGet(t) \/ VaultAccountsStore(t) \/ VaultAccountsCopy(t)
    \/ VaultClose(t)
    \/ Ack(t)

\* A vaultWallet over the configured secrets, each at version 1.
InitVault ==
    /\ InitWallet
    /\ secrets = [n \in 1 .. NumSecrets |-> SecretData(n, 1)]
    /\ hashicorpConfigs = << >>
    /\ descriptor = SecretData(1, 1)

\* Several goroutines call into the vaultWallet.
NextVault == \E t \in Threads : VaultStep(t)

SpecVault == InitVault /\ [][NextVault]_vars

\* -------------------------------------------------- toRequestData alone
\* Everything but the descriptor and the result of toRequestData.
locatorOutside == <<wallet, lock, crashed, pc, op, arg, ret, openLocals, sending, cleared, health,
                    signLocals, reads, refreshLocals, subscribed, backend, backendLocals, vault>>

\* A descriptor is handed to toRequestData.
LocatorPick ==
    /\ request # NoRequest
    /\ descriptor' \in Descriptors
    /\ request' = NoRequest
    /\ UNCHANGED locatorOutside

\* toRequestData returns.
LocatorApply ==
    /\ request = NoRequest
    /\ request' = toRequestData(descriptor)
    /\ UNCHANGED <<descriptor, locatorOutside>>

InitLocator ==
    /\ InitWallet
    /\ secrets = CHOOSE c \in Configs : TRUE
    /\ hashicorpConfigs = << >>
    /\ descriptor \in Descriptors

NextLocator == LocatorPick \/ LocatorApply

SpecLocator == InitLocator /\ [][NextLocator]_vars

\* ================================================================ claims
SignOps == {"SignHash", "SignTx"}

\* t takes the first step of a call of method m.
Calls(t, m) == pc[t] = "idle" /\ op'[t] = m

\* The step is one of t's.
Moves(t) == <<pc[t], idx[t]>> # <<pc'[t], idx'[t]>>

\* t takes the first step of SignHash or SignTx.
CallsSign(t) == pc[t] = "idle" /\ op'[t] \in SignOps

\* C1: Open on a wallet that has a session returns ErrWalletAlreadyOpen at
\* once, leaves the session, the account list and the account index as they
\* were and sends no event.
C1_OpenOnOpenWallet ==
    [][\A t \in Threads :
        (Calls(t, "Open") /\ client # Nil) =>
            /\ pc'[t] = "done"
            /\ ret'[t].err = "ErrWalletAlreadyOpen"
            /\ client' = client
            /\ accounts' = accounts
            /\ accountsSecretMap' = accountsSecretMap
            /\ sent' = sent]_vars

C1_Witness ==
    \E t \in Threads :
        /\ pc[t] = "done" /\ op[t] = "Open"
        /\ ret[t].err = "ErrWalletAlreadyOpen"
        /\ client # Nil
        /\ sent[t] = 0

\* C2: every Close that returns returns nil; a Close of a wallet without a
\* session changes no field; and the fields a Close leaves are fields that a
\* further Close leaves as they are.
C2_CloseIdempotent ==
    [][\A t \in Threads :
        (pc[t] = "close_wait" /\ pc'[t] # "close_wait") =>
            /\ pc'[t] = "done"
            /\ ret'[t].err = Nil
            /\ (client = Nil =>
                    /\ client' = client
                    /\ accounts' = accounts
                    /\ accountsSecretMap' = accountsSecretMap)
            /\ LET again == closeState(client', accounts', accountsSecretMap') IN
                    /\ again.client = client'
                    /\ again.accounts = accounts'
                    /\ again.accountsSecretMap = accountsSecretMap'
                    /\ ~again.clearToken]_vars

C2_Witness ==
    \E t \in Threads :
        /\ pc[t] = "done" /\ op[t] = "Close"
        /\ ret[t].err = Nil
        /\ ~cleared[t]
        /\ client = Nil

\* C3: a Close of a wallet with a session leaves no session, an empty
\* account list and an empty index, so that Contains is false for every
\* account; and an empty list or index gets entries again only by the
\* installing steps of refreshAccounts.
C3_CloseDiscardsAll ==
    [][/\ \A t \in Threads :
            (pc[t] = "close_wait" /\ pc'[t] # "close_wait" /\ client # Nil) =>
                /\ client' = Nil
                /\ accounts' = << >>
                /\ DOMAIN accountsSecretMap' = {}
                /\ \A a \in CallerAccounts : ~ContainsIn(accounts', a)
       /\ (accounts = << >> /\ accounts' # << >>) =>
            \E t \in Threads : pc[t] = "refresh_accounts" /\ pc'[t] = "refresh_map"
       /\ (DOMAIN accountsSecretMap = {} /\ DOMAIN accountsSecretMap' # {}) =>
            \E t \in Threads :
                pc[t] = "refresh_map" /\ pc'[t] = "done" /\ ret'[t].err = Nil]_vars

C3_Witness ==
    \E t \in Threads :
        /\ pc[t] = "done" /\ op[t] = "Close"
        /\ cleared[t]
        /\ client = Nil
        /\ accounts = << >>
        /\ DOMAIN accountsSecretMap = {}

\* C4: SignHash and SignTx on a wallet without a session return
\* ErrWalletClosed for every account, and read nothing from the store.
C4_SignOnClosedWallet ==
    [][\A t \in Threads :
        (CallsSign(t) /\ client = Nil) =>
            /\ pc'[t] = "done"
            /\ ret'[t].err = "ErrWalletClosed"
            /\ reads'[t] = 0]_vars

C4_Witness ==
    \E t \in Threads :
        /\ pc[t] = "done" /\ op[t] \in SignOps
        /\ ret[t].err = "ErrWalletClosed"
        /\ client = Nil
        /\ reads[t] = 0

\* The second half of C5: an account whose address is in the index goes on
\* to key retrieval, a valid key from the store goes on to signing, and
\* signing returns nil.
SignsIndexed(t) ==
    /\ (CallsSign(t) /\ client # Nil /\ arg'[t].Address \in DOMAIN accountsSecretMap) =>
            pc'[t] = "sign_key"
    /\ (pc[t] = "sign_key" /\ pc'[t] # "sign_key" /\ secretKey'[t] = "goodkey") =>
            pc'[t] = "sign_do"
    /\ (pc[t] = "sign_do" /\ pc'[t] # "sign_do") =>
            pc'[t] = "done" /\ ret'[t].err = Nil

C6_SignOnlyContained ==
    [][\A t \in Threads :
        (CallsSign(t) /\ pc'[t] = "sign_key") => ContainsIn(accounts, arg'[t])]_vars

C8_KeyNotObservable ==
    \A t \in Threads :
        (pc[t] = "done" /\ op[t] \in SignOps /\ secretKey[t] \in {"badhex", "goodkey"}) =>
            /\ key[t] # "live"
            /\ ~printed[t]

\* C9: an Open that got as far as reading the environment ends as the two
\* variables decide: exactly one set, AuthConfigError, no login and no
\* session; none set, success with the ambient token and no login; both
\* set, one login, then success with the token of the login, or the error
\* of the login and no session.
C9_OpenAuthChoice ==
    \A t \in Threads :
        (pc[t] = "done" /\ op[t] = "Open"
            /\ ret[t].err \notin {"ErrWalletAlreadyOpen", "ClientError"}) =>
            /\ (env[t][1] # env[t][2] =>
                    /\ ret[t].err = "AuthConfigError"
                    /\ logins[t] = 0
                    /\ client = Nil)
            /\ (~env[t][1] /\ ~env[t][2] =>
                    /\ ret[t].err = Nil
                    /\ logins[t] = 0
                    /\ client = "ambient")
            /\ (env[t][1] /\ env[t][2] =>
                    /\ logins[t] = 1
                    /\ \/ ret[t].err = Nil /\ client = "approle"
                       \/ ret[t].err = "TransportError" /\ client = Nil)

C9_Witness ==
    \E t \in Threads :
        /\ pc[t] = "done" /\ op[t] = "Open"
        /\ env[t] = <<TRUE, TRUE>>
        /\ logins[t] = 1
        /\ ret[t].err = Nil
        /\ client = "approle"

\* C10: an Open that returned nil sent exactly one WalletOpened event, an
\* Open that returned an error sent none, and an Open that has sent the
\* event has the session stored when it returns.
C10_OpenedEvent ==
    \A t \in Threads :
        /\ sent[t] \in {0, 1}
        /\ (pc[t] = "done" /\ op[t] = "Open") =>
                /\ (ret[t].err = Nil <=> sent[t] = 1)
                /\ (sent[t] = 1 => client # Nil)
        /\ (op[t] # "Open" => sent[t] = 0)

C10_Witness ==
    \E t \in Threads :
        /\ pc[t] = "done" /\ op[t] = "Open"
        /\ ret[t].err = Nil
        /\ sent[t] = 1
        /\ client # Nil

\* C11: publishing an event never blocks the publishing caller: an Open that
\* is sending the WalletOpened event can take its next step by itself,
\* whatever the subscribers of the feed do or fail to do.
C11_PublishNeverBlocks ==
    \A t \in Threads :
        pc[t] \in {"open_send", "open_sending"} => ENABLED Step(t)

\* Configuration n has a URL that parses.
WellFormed(n) == parseURL(hashicorpConfigs[n].Url).err = Nil

\* C12: the build step isolates the failure of one wallet: no wallet and no
\* WalletArrived event is ever produced for a configuration with a malformed
\* URL, and when the build step has returned the collection holds exactly
\* the wallets of the well-formed configurations, in configuration order.
C12_BuildIsolatesFailures ==
    /\ \A j \in 1 .. Len(wallets) : WellFormed(wallets[j].cfg)
    /\ \A j \in 1 .. Len(arrived) : WellFormed(arrived[j].cfg)
    /\ \A t \in Threads :
        (pc[t] = "done" /\ op[t] = "refreshWallets") =>
            [j \in 1 .. Len(wallets) |-> wallets[j].cfg]
                = SelectSeq([n \in 1 .. Len(hashicorpConfigs) |-> n], WellFormed)

\* C13: Status decides on the session and the answer of the health call
\* alone and writes nothing: no session, "Closed" and no error, without a
\* health call; a failed health call, the health-check-failed status with
\* that error; not initialised (sealed or not), the uninitialised status and
\* an error; initialised and sealed, the sealed status and an error;
\* otherwise the open status and no error.
C13_StatusDecision ==
    [][\A t \in Threads :
        (Moves(t) /\ op'[t] = "Status") =>
            /\ client' = client
            /\ accounts' = accounts
            /\ accountsSecretMap' = accountsSecretMap
            /\ (pc[t] = "idle" /\ client = Nil) =>
                    /\ pc'[t] = "done"
                    /\ ret'[t] = [err |-> Nil, val |-> "Closed"]
                    /\ health'[t] = NoHealth
            /\ (pc[t] = "idle" /\ client # Nil) => pc'[t] = "status_health"
            /\ (pc[t] = "status_health") =>
                    LET h == health'[t] IN
                    /\ pc'[t] = "done"
                    /\ h \in HealthResponses
                    /\ h.kind = "error" =>
                            ret'[t] = [err |-> "TransportError", val |-> "Vault healthcheck failed"]
                    /\ (h.kind = "health" /\ ~h.Initialized) =>
                            ret'[t].val = "Vault uninitialised" /\ ret'[t].err # Nil
                    /\ (h.kind = "health" /\ h.Initialized /\ h.Sealed) =>
                            ret'[t].val = "Vault sealed" /\ ret'[t].err # Nil
                    /\ (h.kind = "health" /\ h.Initialized /\ ~h.Sealed) =>
                            ret'[t] = [err |-> Nil, val |-> "Open, vault initialised and unsealed"]]_vars

C13_Witness ==
    \E t \in Threads :
        /\ pc[t] = "done" /\ op[t] = "Status"
        /\ client # Nil
        /\ health[t] = [kind |-> "health", Initialized |-> FALSE, Sealed |-> TRUE]
        /\ ret[t].val = "Vault uninitialised"
        /\ ret[t].err = "Vault health check result - Initialized: false, Sealed: true"

\* C14: Accounts returns the cached account list and triggers no refresh:
\* no step of an Accounts call, of either wallet, reads the store or
\* changes the cached list, the index or the session, and the list it
\* returns is the cached one (so two calls with nothing in between return
\* equal lists, whatever the store holds).
C14_AccountsReadsCache ==
    [][\A t \in Threads :
        (Moves(t) /\ op'[t] \in {"Accounts", "vaultWallet.Accounts"}) =>
            /\ reads'[t] = 0
            /\ accounts' = accounts
            /\ accountsSecretMap' = accountsSecretMap
            /\ client' = client
            /\ vwAccounts' = vwAccounts
            /\ (pc'[t] = "done" /\ op'[t] = "Accounts") => ret'[t] = Ok(accounts)
            /\ (pc'[t] = "done" /\ op'[t] = "vaultWallet.Accounts") => ret'[t] = Ok(vwAccounts)]_vars

\* C15: what toRequestData returns is fixed by the descriptor: for a
\* version >= 0 the path engine/data/name, the one query parameter version
\* with the decimal version as its one value, and no error; for a version
\* < 0 an error, the empty path and no query parameters.
C15_SecretLocator ==
    request # NoRequest =>
        IF descriptor.Version >= 0
        THEN /\ request.err = Nil
             /\ request.path = descriptor.SecretEngine \o "/data/" \o descriptor.Name
             /\ DOMAIN request.queryParams = {"version"}
             /\ request.queryParams.version = <<ToString(descriptor.Version)>>
        ELSE /\ request.err \notin {Nil, "none"}
             /\ request.path = ""
             /\ request.queryParams = << >>

C15_Witness ==
    /\ descriptor = [Name |-> "acct2", SecretEngine |-> "kv", Version |-> 10,
                     AccountID |-> "address", KeyID |-> "key"]
    /\ request = [path |-> "kv/data/acct2", queryParams |-> [version |-> <<"10">>], err |-> Nil]

\* C16: in every state a wallet without a session has an empty account list
\* and an empty account index, whatever the interleaving of Open, Close,
\* refreshAccounts and the readers.
C16_ClosedWalletHasNoAccounts ==
    client = Nil => (accounts = << >> /\ DOMAIN accountsSecretMap = {})

\* The addresses of the account list.
ListedAddresses == {accounts[j].Address : j \in 1 .. Len(accounts)}

C18_OneOpenPerTransition ==
    [][\A t \in Threads :
        /\ (pc[t] = "open_send" /\ pc'[t] # "open_send") => client = Nil
        /\ (pc[t] = "open_store" /\ pc'[t] = "done") => client = Nil]_vars

\* C19: a SignHash or SignTx call that runs concurrently with Close reads
\* the session consistently: a call that finds no session returns
\* ErrWalletClosed; a call that found one keeps it, unchanged, until it
\* returns (no Close clears it in between), and if it panics it is over the
\* answer of the store, never over a nil session.
C19_SignConsistentWithClose ==
    [][\A t \in Threads :
        /\ (CallsSign(t) /\ client = Nil) =>
                pc'[t] = "done" /\ ret'[t].err = "ErrWalletClosed"
        /\ (pc[t] \in {"sign_key", "sign_do"}) =>
                client # Nil /\ client' = client
        /\ (pc[t] = "sign_key" /\ pc'[t] = "panic") =>
                secretKey'[t] \in {"nodata", "notstring"}]_vars

C19_Witness ==
    \E t \in Threads, u \in Threads :
        /\ pc[t] = "done" /\ op[t] \in SignOps
        /\ ret[t].err = Nil
        /\ pc[u] = "close_wait"
        /\ client # Nil

\* The WalletArrived events sent for wallets of configuration n.
ArrivedFor(n) == {j \in 1 .. Len(arrived) : arrived[j].cfg = n}

\* C20: the collection of the backend is built once, however many build
\* calls run one after the other or at the same time: no configuration
\* ever has more than one WalletArrived event, a collection that holds
\* wallets is never replaced, and Wallets and Subscribe change neither the
\* collection nor the events sent.
C20_BuiltOnce ==
    [][/\ \A n \in 1 .. Len(hashicorpConfigs) : Cardinality(ArrivedFor(n)') <= 1
       /\ (Len(wallets) > 0 => wallets' = wallets)
       /\ \A t \in Threads :
            (Moves(t) /\ op'[t] = "Wallets") =>
                /\ wallets' = wallets /\ arrived' = arrived
                /\ ret'[t] = Ok(wallets)
       /\ (subscribed' # subscribed => (wallets' = wallets /\ arrived' = arrived))]_vars

\* C21: every call releases the locks it took, on every return path: when
\* no call is in progress the lock of the wallet is held by no reader and
\* no writer, so that the next Close or Open is granted the exclusive lock.
C21_LockFreeBetweenCalls ==
    (\A t \in Threads : pc[t] \in {"idle", "done"}) =>
        (readers = 0 /\ writer = NoThread)

\* C22: the lock discipline is free of deadlock: a signing call about to
\* read the key and a Close or Open waiting for the exclusive lock never
\* wait on each other, one of the two can always take its next step.
C22_SignAndCloseNeverDeadlock ==
    \A t \in Threads, u \in Threads :
        (pc[t] = "sign_key" /\ pc[u] \in {"close_wait", "open_wait"} /\ ~crashed) =>
            (ENABLED Step(t) \/ ENABLED Step(u))

\* C23: refreshAccounts never uses an absent session: a turn of its loop
\* that finds the wallet without a session returns an error and leaves the
\* account list and the index as they are.
C23_RefreshNeedsSession ==
    [][\A t \in Threads :
        (Moves(t) /\ pc[t] = "refresh_get" /\ client = Nil) =>
            /\ pc'[t] = "done"
            /\ ret'[t].err # Nil
            /\ accounts' = accounts
            /\ accountsSecretMap' = accountsSecretMap]_vars

====
